---- MODULE Spec2Model ----
(***************************************************************************)
(* The recursive-descent JSON parser of src/json_parser/parser.rs as a     *)
(* state machine.                                                          *)
(*                                                                         *)
(* A character is its Unicode scalar value (an integer), the input is a    *)
(* sequence of characters and `pos` is the index of the character that     *)
(* `self.chars.peek()` / `self.chars.next()` would yield.  The call stack  *)
(* of the mutually recursive methods is explicit: every frame records the  *)
(* method, the program point inside it and the method's locals.  One       *)
(* action is one program point; it performs at most one read of the        *)
(* character iterator.                                                     *)
(*                                                                         *)
(* The parser reads its input strictly left to right, so the environment   *)
(* supplies the input piecewise (Feed) the first time the parser looks     *)
(* past what has been supplied, and ends it with EndOfInput.  A finished   *)
(* parse therefore is the parse of every input that starts with the        *)
(* supplied text when the parser stopped early, and of exactly the         *)
(* supplied text when `eof` is set.                                        *)
(***************************************************************************)
EXTENDS Integers, Sequences, FiniteSets, TLC

(***************************************************************************)
(* Characters named by the source.                                         *)
(***************************************************************************)
NONE      == -1      \* Option::None of peek()/next(): no character
QUOTE     == 34      \* '"'
PLUS      == 43      \* '+'
COMMA     == 44      \* ','
MINUS     == 45      \* '-'
DOT       == 46      \* '.'
SLASH     == 47      \* '/'
DIGIT0    == 48      \* '0'
DIGIT9    == 57      \* '9'
COLON     == 58      \* ':'
UPPER_E   == 69      \* 'E'
LBRACKET  == 91      \* '['
BACKSLASH == 92      \* '\\'
RBRACKET  == 93      \* ']'
LOWER_B   == 98      \* 'b'
LOWER_E   == 101     \* 'e'
LOWER_F   == 102     \* 'f'
LOWER_N   == 110     \* 'n'
LOWER_R   == 114     \* 'r'
LOWER_T   == 116     \* 't'
LOWER_U   == 117     \* 'u'
LBRACE    == 123     \* '{'
RBRACE    == 125     \* '}'
BACKSPACE == 8       \* '\u{0008}'
FORMFEED  == 12      \* '\u{000C}'
NEWLINE   == 10      \* '\n'
CARRIAGE  == 13      \* '\r'
TAB       == 9       \* '\t'
RADIX     == 16      \* from_str_radix(&hex, 16)
HEXLEN    == 4       \* take(4), hex.len() != 4

KW_TRUE  == <<116, 114, 117, 101>>        \* "true"
KW_FALSE == <<102, 97, 108, 115, 101>>    \* "false"
KW_NULL  == <<110, 117, 108, 108>>        \* "null"

(***************************************************************************)
(* The error strings of the source.                                        *)
(***************************************************************************)
E_UNEXPECTED_CHAR  == "Unexpected character: "
E_UNEXPECTED_END   == "Unexpected end of input"
E_COLON            == "Expected ':' in object"
E_COMMA_OR_BRACE   == "Expected ',' or '}' in object"
E_COMMA_OR_BRACKET == "Expected ',' or ']' in array"
E_BAD_UNICODE      == "Invalid unicode escape"
E_BAD_ESCAPE       == "Invalid escape character"
E_UNTERMINATED     == "Unterminated string"
E_BAD_NUMBER       == "Invalid number"
E_TRUE             == "Expected 'true'"
E_FALSE            == "Expected 'false'"
E_BOOLEAN          == "Expected boolean"
E_NULL             == "Expected 'null'"
E_TRAILING         == "Unexpected characters after JSON value"

(***************************************************************************)
(* JsonValue and the Result / return values of the methods.                *)
(***************************************************************************)
JNull       == [type |-> "Null"]
JBoolean(b) == [type |-> "Boolean", b |-> b]
JNumber(x)  == [type |-> "Number", num |-> x]
JString(s)  == [type |-> "String", s |-> s]
JArray(a)   == [type |-> "Array", items |-> a]
JObject(o)  == [type |-> "Object", pairs |-> o]

RawString(s) == [type |-> "str", s |-> s]      \* Ok(String) of parse_string
RawBool(b)   == [type |-> "bool", b |-> b]     \* bool of consume_if_match
Unit         == [type |-> "unit"]

Ok(v)        == [ok |-> TRUE, val |-> v, err |-> "", ch |-> NONE]
Err(msg)     == [ok |-> FALSE, val |-> Unit, err |-> msg, ch |-> NONE]
ErrCh(msg, c) == [ok |-> FALSE, val |-> Unit, err |-> msg, ch |-> c]
NoRet        == [ok |-> FALSE, val |-> Unit, err |-> "", ch |-> NONE]

(***************************************************************************)
(* Library functions the parser calls.                                     *)
(***************************************************************************)
\* faulty variant: only the whitespace of ASCII
is_whitespace_AsciiOnly(c) == c \in {9, 10, 12, 13, 32}

\* char::is_whitespace: the Unicode White_Space property
is_whitespace(c) ==
    \/ c \in 9..13
    \/ c = 32
    \/ c = 133
    \/ c = 160
    \/ c = 5760
    \/ c \in 8192..8202
    \/ c \in {8232, 8233, 8239, 8287, 12288}

\* c.is_digit(10)
is_digit(c) == c \in DIGIT0..DIGIT9

\* char::to_digit(16) as used by from_str_radix: -1 when c is no hex digit
to_digit(c) ==
    IF c \in 48..57 THEN c - 48
    ELSE IF c \in 97..102 THEN c - 87
    ELSE IF c \in 65..70 THEN c - 55
    ELSE -1

RECURSIVE DigitsValue(_, _)
\* the value of a sequence of digits in `radix`
DigitsValue(ds, radix) ==
    IF ds = <<>> THEN 0
    ELSE DigitsValue(SubSeq(ds, 1, Len(ds) - 1), radix) * radix + to_digit(ds[Len(ds)])

\* u32::from_str_radix(&hex, 16): an optional '+' and then at least one hex
\* digit; for an unsigned type '-' is not a sign but an invalid digit
from_str_radix(hex) ==
    LET digits == IF hex # <<>> /\ hex[1] = PLUS THEN Tail(hex) ELSE hex
    IN  IF digits = <<>> \/ \E i \in 1..Len(digits) : to_digit(digits[i]) = -1
        THEN [ok |-> FALSE, v |-> 0]
        ELSE [ok |-> TRUE, v |-> DigitsValue(digits, RADIX)]

\* char::from_u32: every code point but the surrogates and those above 10FFFF
from_u32(code) ==
    IF code \in 55296..57343 \/ code > 1114111
    THEN [ok |-> FALSE, c |-> NONE]
    ELSE [ok |-> TRUE, c |-> code]

\* the number of bytes of c in UTF-8
Utf8Len(c) == IF c < 128 THEN 1 ELSE IF c < 2048 THEN 2 ELSE IF c < 65536 THEN 3 ELSE 4

RECURSIVE ByteLen(_)
\* String::len(): the length in bytes
ByteLen(s) == IF s = <<>> THEN 0 ELSE Utf8Len(Head(s)) + ByteLen(Tail(s))

RECURSIVE DigitRun(_, _)
\* the first index >= i of s that holds no decimal digit
DigitRun(s, i) == IF i <= Len(s) /\ is_digit(s[i]) THEN DigitRun(s, i + 1) ELSE i

RECURSIVE StripLeft(_)
\* the digits without their leading zeros
StripLeft(ds) == IF ds # <<>> /\ Head(ds) = DIGIT0 THEN StripLeft(Tail(ds)) ELSE ds

RECURSIVE Normal(_, _, _)
\* the number (-1)^neg * ds * 10^e in its one normal form: no leading and no
\* trailing zero among the digits, and zero as the empty digits (so that
\* -0 = 0, 1 = 1.0 = 10e-1, as for the f64 values)
Normal(neg, ds, e) ==
    IF ds = <<>> THEN [neg |-> FALSE, digits |-> <<>>, exp |-> 0]
    ELSE IF ds[Len(ds)] = DIGIT0 THEN Normal(neg, SubSeq(ds, 1, Len(ds) - 1), e + 1)
    ELSE [neg |-> neg, digits |-> ds, exp |-> e]

\* str::parse::<f64>() on a run of [0-9.eE+-]: sign? digits ('.' digits)?
\* with at least one digit, then (e|E) sign? digits+, and nothing after.
\* The value is kept exactly, as its decimal digits and an exponent of ten
\* (the literals of the model are too short to round or to overflow an f64).
parse_f64(s) ==
    LET neg   == s # <<>> /\ s[1] = MINUS
        i0    == IF s # <<>> /\ s[1] \in {MINUS, PLUS} THEN 2 ELSE 1
        i1    == DigitRun(s, i0)
        dot   == i1 <= Len(s) /\ s[i1] = DOT
        i2    == IF dot THEN DigitRun(s, i1 + 1) ELSE i1
        ipart == SubSeq(s, i0, i1 - 1)
        fpart == IF dot THEN SubSeq(s, i1 + 1, i2 - 1) ELSE <<>>
        hasE  == i2 <= Len(s) /\ s[i2] \in {LOWER_E, UPPER_E}
        eneg  == hasE /\ i2 + 1 <= Len(s) /\ s[i2 + 1] = MINUS
        i3    == IF hasE /\ i2 + 1 <= Len(s) /\ s[i2 + 1] \in {MINUS, PLUS}
                 THEN i2 + 2 ELSE i2 + 1
        i4    == IF hasE THEN DigitRun(s, i3) ELSE i2
        epart == IF hasE THEN SubSeq(s, i3, i4 - 1) ELSE <<>>
        eval  == DigitsValue(epart, 10)
        valid == /\ Len(ipart) + Len(fpart) > 0
                 /\ hasE => epart # <<>>
                 /\ i4 = Len(s) + 1
    IN  IF valid
        THEN [ok |-> TRUE,
              num |-> Normal(neg, StripLeft(ipart \o fpart),
                             (IF eneg THEN 0 - eval ELSE eval) - Len(fpart))]
        ELSE [ok |-> FALSE, num |-> Normal(FALSE, <<>>, 0)]

(***************************************************************************)
(* Bounds of the model: how many chunks of input the environment supplies  *)
(* in each family of inputs.                                               *)
(***************************************************************************)
MaxTokens   == 5
MaxMembers  == 5
MaxString   == 4
MaxKey      == 5
MaxLiteral  == 4

(***************************************************************************)
(* The families of inputs.  An input is a concatenation of chunks of its   *)
(* family; a chunk is a sequence of pieces of text.                        *)
(*   "tokens":   any sequence of JSON tokens, one token a chunk;           *)
(*   "members":  objects built from whole members, key ':' value, as       *)
(*               "a":1  "a":"b"  "b":{  "b":[1]                            *)
(*   "string":   the inside of string literals, escapes included;          *)
(*   "keys":     objects whose key may start with any character;           *)
(*   "literals": keywords, their prefixes, and number literals.            *)
(* In the first two families every piece is one token.                     *)
(***************************************************************************)
Families      == {"tokens", "members", "string", "keys", "literals"}
TokenFamilies == {"tokens", "members"}

Structural == {<<LBRACE>>, <<RBRACE>>, <<LBRACKET>>, <<RBRACKET>>, <<COMMA>>, <<COLON>>}

Blank == {<<32>>, <<160>>}          \* ' ' and U+00A0, both is_whitespace

StrA == <<QUOTE, 97, QUOTE>>        \* "a"
StrB == <<QUOTE, 98, QUOTE>>        \* "b"
One  == <<49>>                      \* 1

Chunks(f) ==
    CASE f = "tokens" ->
           {<<t>> : t \in Structural \cup {<<32>>, One, StrA}}
      [] f = "members" ->
           {<<<<LBRACE>>>>, <<<<RBRACE>>>>, <<<<COMMA>>>>,
            <<StrA, <<COLON>>, One>>, <<StrA, <<COLON>>, StrB>>,
            <<StrB, <<COLON>>, <<LBRACE>>>>,
            <<StrB, <<COLON>>, <<LBRACKET>>, One, <<RBRACKET>>>>}
      [] f = "string" ->
           {<<p>> : p \in
              {<<QUOTE>>, <<BACKSLASH>>, <<BACKSLASH, LOWER_U>>, <<LOWER_N>>,
               <<233>>, <<48, 48>>, <<52, 49>>, <<68, 56>>, <<PLUS, 48>>}}
               \* e-acute, 00, 41, D8, +0
      [] f = "keys" ->
           {<<p>> : p \in
              {<<LBRACE>>, <<LBRACE, 32>>, <<RBRACE>>, <<QUOTE>>, <<120>>,
               <<COLON, 49>>, <<COMMA>>}}
               \* {, { and a space, }, ", x, :1, ','
      [] OTHER ->
           {<<p>> : p \in
              {<<116, 114, 117>>, <<LOWER_E>>, <<102, 97, 108, 115>>,
               <<110, 117, 108>>, <<108>>, <<49>>, <<MINUS>>, <<DOT>>, <<PLUS>>,
               <<32>>, <<97>>}}
               \* tru, e, fals, nul, l, 1, -, ., +, ' ', a

Budget(f) ==
    CASE f = "tokens"  -> MaxTokens
      [] f = "members" -> MaxMembers
      [] f = "string"  -> MaxString
      [] f = "keys"    -> MaxKey
      [] OTHER         -> MaxLiteral

RECURSIVE Flatten(_)
\* the text of a sequence of pieces
Flatten(ts) == IF ts = <<>> THEN <<>> ELSE Head(ts) \o Flatten(Tail(ts))

VARIABLES
    family,   \* the family the input is drawn from
    left,     \* how many more chunks the environment may supply
    fed,      \* the pieces of input supplied so far
    input,    \* the &str given to Parser::new, as far as supplied: Flatten(fed)
    eof,      \* TRUE when the input ends after what was supplied
    pos,      \* Parser.chars: index of the next character of input
    stack,    \* the call stack, innermost frame last
    ret,      \* the value the method that returned last handed to its caller
    result,   \* what parse_json returned (NoRet while it runs)
    first     \* what parse_json returned for the document without the
              \* added whitespace (NoRet until a document is parsed again)

vars == <<family, left, fed, input, eof, pos, stack, ret, result, first>>
env  == <<family, left, fed, input, eof, first>>

(***************************************************************************)
(* Frames.                                                                 *)
(***************************************************************************)
JsonFrame    == [fn |-> "parse_json", pc |-> "pj_start", value |-> Unit]
ValueFrame   == [fn |-> "parse_value", pc |-> "pv_start"]
WsFrame      == [fn |-> "skip_whitespace", pc |-> "ws_loop"]
ObjectFrame  == [fn |-> "parse_object", pc |-> "po_start", object |-> <<>>, key |-> <<>>]
ArrayFrame   == [fn |-> "parse_array", pc |-> "pa_start", array |-> <<>>]
StringFrame  == [fn |-> "parse_string", pc |-> "ps_start", string |-> <<>>, hex |-> <<>>]
NumberFrame  == [fn |-> "parse_number", pc |-> "pn_start", number |-> <<>>]
BooleanFrame == [fn |-> "parse_boolean", pc |-> "pb_start"]
NullFrame    == [fn |-> "parse_null", pc |-> "pl_start"]
MatchFrame(expected) ==
    [fn |-> "consume_if_match", pc |-> "cm_cmp", expected |-> expected,
     cpos |-> pos, i |-> 1]

\* Parser::new(input) followed by the call of parse_json's body
NewParser == <<JsonFrame>>

Init ==
    /\ family \in Families
    /\ left = Budget(family)
    /\ fed = <<>>
    /\ input = <<>>
    /\ eof = FALSE
    /\ pos = 1
    /\ stack = NewParser
    /\ ret = NoRet
    /\ result = NoRet
    /\ first = NoRet

Done == stack = <<>>
Top  == stack[Len(stack)]

\* the program points that read the character iterator
ReadPcs ==
    {"ws_loop", "pv_peek", "po_start", "po_peek", "po_colon", "po_sep",
     "pa_start", "pa_peek", "pa_sep", "ps_start", "ps_loop", "ps_esc", "ps_hex",
     "pn_start", "pn_loop", "pb_start", "cm_cmp", "cm_adv", "pj_end"}

\* the index the next step reads: the clone's in the comparison loop of
\* consume_if_match, the parser's own everywhere else
ReadIdx == IF Top.pc = "cm_cmp" THEN Top.cpos ELSE pos

\* the character the next step needs is known
Ready == Top.pc \in ReadPcs => (eof \/ ReadIdx <= Len(input))

At(pc) == ~Done /\ Top.pc = pc /\ Ready

(***************************************************************************)
(* The character iterator.                                                 *)
(***************************************************************************)
\* faulty variant: next() leaves the iterator where it is, as peek() does
Advance_Stuck == pos

CharAt(i) == IF i <= Len(input) THEN input[i] ELSE NONE
Peek      == CharAt(pos)                                   \* self.chars.peek()
Advance   == IF pos <= Len(input) THEN pos + 1 ELSE pos    \* self.chars.next()

(***************************************************************************)
(* Calls and returns.                                                      *)
(***************************************************************************)
SetTop(f)       == [stack EXCEPT ![Len(stack)] = f]
Goto(pc)        == [Top EXCEPT !.pc = pc]
Call(f, callee) == Append(SetTop(f), callee)
Caller          == SubSeq(stack, 1, Len(stack) - 1)

Return(r) ==
    /\ stack' = Caller
    /\ ret' = r
    /\ UNCHANGED result

Step(s) ==
    /\ stack' = s
    /\ ret' = NoRet
    /\ UNCHANGED result

(***************************************************************************)
(* The environment: the input text.                                        *)
(***************************************************************************)
\* the next piece of the input
Feed ==
    /\ ~Done /\ ~Ready /\ left > 0
    /\ \E c \in Chunks(family) :
          /\ fed' = fed \o c
          /\ input' = input \o Flatten(c)
    /\ left' = left - 1
    /\ UNCHANGED <<family, eof, pos, stack, ret, result, first>>

\* the input ends here
EndOfInput ==
    /\ ~Done /\ ~Ready
    /\ eof' = TRUE
    /\ UNCHANGED <<family, left, fed, input, pos, stack, ret, result, first>>

(***************************************************************************)
(* skip_whitespace                                                         *)
(***************************************************************************)
skip_whitespace ==
    /\ At("ws_loop")
    /\ IF Peek # NONE /\ is_whitespace(Peek)
       THEN pos' = pos + 1 /\ Step(stack)
       ELSE pos' = pos /\ Return(NoRet)
    /\ UNCHANGED env

(***************************************************************************)
(* parse_value                                                             *)
(***************************************************************************)
\* faulty variant: the arm for 'n' is missing
IsValueStart_NoNull(c) ==
    \/ c \in {LBRACE, LBRACKET, QUOTE, MINUS}
    \/ is_digit(c)
    \/ c \in {LOWER_T, LOWER_F}

\* the characters parse_value dispatches on
IsValueStart(c) ==
    \/ c \in {LBRACE, LBRACKET, QUOTE, MINUS}
    \/ is_digit(c)
    \/ c \in {LOWER_T, LOWER_F, LOWER_N}

\* the sub-parser parse_value hands the character c to
Dispatch(c) ==
    CASE c = LBRACE   -> ObjectFrame
      [] c = LBRACKET -> ArrayFrame
      [] c = QUOTE    -> StringFrame
      [] c = MINUS \/ is_digit(c) -> NumberFrame
      [] c \in {LOWER_T, LOWER_F} -> BooleanFrame
      [] OTHER        -> NullFrame

parse_value_start ==
    /\ At("pv_start")
    /\ Step(Call(Goto("pv_peek"), WsFrame))
    /\ UNCHANGED <<pos, env>>

parse_value_match ==
    /\ At("pv_peek")
    /\ IF Peek = NONE THEN Return(Err(E_UNEXPECTED_END))
       ELSE IF ~IsValueStart(Peek) THEN Return(ErrCh(E_UNEXPECTED_CHAR, Peek))
       ELSE Step(Call(Goto("pv_ret"), Dispatch(Peek)))
    /\ UNCHANGED <<pos, env>>

\* the sub-parser's result is parse_value's; a String is wrapped
parse_value_return ==
    /\ At("pv_ret")
    /\ Return(IF ret.ok /\ ret.val.type = "str" THEN Ok(JString(ret.val.s)) ELSE ret)
    /\ UNCHANGED <<pos, env>>

(***************************************************************************)
(* parse_object                                                            *)
(***************************************************************************)
\* faulty variant: a member replaces the member with the same key, as in a map
ObjectPush_Unique(object, key, value) ==
    IF \E i \in 1..Len(object) : object[i][1] = key
    THEN [i \in 1..Len(object) |->
             IF object[i][1] = key THEN <<key, value>> ELSE object[i]]
    ELSE Append(object, <<key, value>>)

\* object.push((key, value))
ObjectPush(object, key, value) == Append(object, <<key, value>>)

parse_object_open ==
    /\ At("po_start")
    /\ pos' = Advance
    /\ Step(Call(Goto("po_peek"), WsFrame))
    /\ UNCHANGED env

parse_object_peek ==
    /\ At("po_peek")
    /\ IF Peek = RBRACE
       THEN pos' = pos + 1 /\ Return(Ok(JObject(Top.object)))
       ELSE pos' = pos /\ Step(Call(Goto("po_key"), StringFrame))
    /\ UNCHANGED env

parse_object_key ==
    /\ At("po_key")
    /\ IF ~ret.ok THEN Return(ret)
       ELSE Step(Call([Top EXCEPT !.pc = "po_colon", !.key = ret.val.s], WsFrame))
    /\ UNCHANGED <<pos, env>>

parse_object_colon ==
    /\ At("po_colon")
    /\ pos' = Advance
    /\ IF Peek # COLON THEN Return(Err(E_COLON))
       ELSE Step(Call(Goto("po_value"), ValueFrame))
    /\ UNCHANGED env

parse_object_value ==
    /\ At("po_value")
    /\ IF ~ret.ok THEN Return(ret)
       ELSE Step(Call([Top EXCEPT !.pc = "po_sep",
                                  !.object = ObjectPush(Top.object, Top.key, ret.val)],
                      WsFrame))
    /\ UNCHANGED <<pos, env>>

parse_object_sep ==
    /\ At("po_sep")
    /\ pos' = Advance
    /\ IF Peek = COMMA THEN Step(Call(Goto("po_peek"), WsFrame))
       ELSE IF Peek = RBRACE THEN Return(Ok(JObject(Top.object)))
       ELSE Return(Err(E_COMMA_OR_BRACE))
    /\ UNCHANGED env

(***************************************************************************)
(* parse_array                                                             *)
(***************************************************************************)
\* array.push(value)
ArrayPush(array, value) == Append(array, value)

parse_array_open ==
    /\ At("pa_start")
    /\ pos' = Advance
    /\ Step(Call(Goto("pa_peek"), WsFrame))
    /\ UNCHANGED env

parse_array_peek ==
    /\ At("pa_peek")
    /\ IF Peek = RBRACKET
       THEN pos' = pos + 1 /\ Return(Ok(JArray(Top.array)))
       ELSE pos' = pos /\ Step(Call(Goto("pa_value"), ValueFrame))
    /\ UNCHANGED env

parse_array_value ==
    /\ At("pa_value")
    /\ IF ~ret.ok THEN Return(ret)
       ELSE Step(Call([Top EXCEPT !.pc = "pa_sep",
                                  !.array = ArrayPush(Top.array, ret.val)],
                      WsFrame))
    /\ UNCHANGED <<pos, env>>

parse_array_sep ==
    /\ At("pa_sep")
    /\ pos' = Advance
    /\ IF Peek = COMMA THEN Step(Call(Goto("pa_peek"), WsFrame))
       ELSE IF Peek = RBRACKET THEN Return(Ok(JArray(Top.array)))
       ELSE Return(Err(E_COMMA_OR_BRACKET))
    /\ UNCHANGED env

(***************************************************************************)
(* parse_string                                                            *)
(***************************************************************************)
\* the character a one-letter escape stands for, NONE when there is none
Unescape(c) ==
    CASE c = QUOTE     -> QUOTE
      [] c = BACKSLASH -> BACKSLASH
      [] c = SLASH     -> SLASH
      [] c = LOWER_B   -> BACKSPACE
      [] c = LOWER_F   -> FORMFEED
      [] c = LOWER_N   -> NEWLINE
      [] c = LOWER_R   -> CARRIAGE
      [] c = LOWER_T   -> TAB
      [] OTHER         -> NONE

\* faulty variant: the length of the collected text is not checked
DecodeUnicode_NoLength(hex) ==
    LET code == from_str_radix(hex)
    IN  IF ~code.ok THEN [ok |-> FALSE, c |-> NONE] ELSE from_u32(code.v)

\* the character of the collected text of a \u escape
DecodeUnicode(hex) ==
    IF ByteLen(hex) # HEXLEN THEN [ok |-> FALSE, c |-> NONE]
    ELSE LET code == from_str_radix(hex)
         IN  IF ~code.ok THEN [ok |-> FALSE, c |-> NONE] ELSE from_u32(code.v)

\* push the decoded character or fail
UnicodeEscape(hex) ==
    LET ch == DecodeUnicode(hex)
    IN  IF ch.ok
        THEN Step(SetTop([Top EXCEPT !.pc = "ps_loop", !.hex = <<>>,
                                     !.string = Append(Top.string, ch.c)]))
        ELSE Return(Err(E_BAD_UNICODE))

\* self.chars.next(): whatever character is there is taken for the opening '"'
parse_string_open ==
    /\ At("ps_start")
    /\ pos' = Advance
    /\ Step(SetTop(Goto("ps_loop")))
    /\ UNCHANGED env

parse_string_char ==
    /\ At("ps_loop")
    /\ pos' = Advance
    /\ IF Peek = NONE THEN Return(Err(E_UNTERMINATED))
       ELSE IF Peek = QUOTE THEN Return(Ok(RawString(Top.string)))
       ELSE IF Peek = BACKSLASH THEN Step(SetTop(Goto("ps_esc")))
       ELSE Step(SetTop([Top EXCEPT !.string = Append(Top.string, Peek)]))
    /\ UNCHANGED env

parse_string_escape ==
    /\ At("ps_esc")
    /\ pos' = Advance
    /\ IF Peek = LOWER_U THEN Step(SetTop(Goto("ps_hex")))
       ELSE IF Peek = NONE \/ Unescape(Peek) = NONE THEN Return(Err(E_BAD_ESCAPE))
       ELSE Step(SetTop([Top EXCEPT !.pc = "ps_loop",
                                    !.string = Append(Top.string, Unescape(Peek))]))
    /\ UNCHANGED env

\* self.chars.by_ref().take(4).collect(), one character a step, and what
\* follows it once four are taken or the input has ended
parse_string_hex ==
    /\ At("ps_hex")
    /\ pos' = Advance
    /\ IF Peek = NONE THEN UnicodeEscape(Top.hex)
       ELSE IF Len(Top.hex) + 1 = HEXLEN THEN UnicodeEscape(Append(Top.hex, Peek))
       ELSE Step(SetTop([Top EXCEPT !.hex = Append(Top.hex, Peek)]))
    /\ UNCHANGED env

(***************************************************************************)
(* parse_number                                                            *)
(***************************************************************************)
\* the characters the number loop takes
IsNumberChar(c) == is_digit(c) \/ c \in {DOT, LOWER_E, UPPER_E, PLUS, MINUS}

parse_number_sign ==
    /\ At("pn_start")
    /\ IF Peek = MINUS
       THEN pos' = pos + 1
            /\ Step(SetTop([Top EXCEPT !.pc = "pn_loop", !.number = <<MINUS>>]))
       ELSE pos' = pos /\ Step(SetTop(Goto("pn_loop")))
    /\ UNCHANGED env

parse_number_char ==
    /\ At("pn_loop")
    /\ IF Peek # NONE /\ IsNumberChar(Peek)
       THEN pos' = pos + 1
            /\ Step(SetTop([Top EXCEPT !.number = Append(Top.number, Peek)]))
       ELSE pos' = pos
            /\ LET f == parse_f64(Top.number)
               IN  Return(IF f.ok THEN Ok(JNumber(f.num)) ELSE Err(E_BAD_NUMBER))
    /\ UNCHANGED env

(***************************************************************************)
(* parse_boolean, parse_null, consume_if_match                             *)
(***************************************************************************)
parse_boolean_peek ==
    /\ At("pb_start")
    /\ IF Peek = LOWER_T THEN Step(Call(Goto("pb_true"), MatchFrame(KW_TRUE)))
       ELSE IF Peek = LOWER_F THEN Step(Call(Goto("pb_false"), MatchFrame(KW_FALSE)))
       ELSE Return(Err(E_BOOLEAN))
    /\ UNCHANGED <<pos, env>>

parse_boolean_true ==
    /\ At("pb_true")
    /\ Return(IF ret.val.b THEN Ok(JBoolean(TRUE)) ELSE Err(E_TRUE))
    /\ UNCHANGED <<pos, env>>

parse_boolean_false ==
    /\ At("pb_false")
    /\ Return(IF ret.val.b THEN Ok(JBoolean(FALSE)) ELSE Err(E_FALSE))
    /\ UNCHANGED <<pos, env>>

parse_null_call ==
    /\ At("pl_start")
    /\ Step(Call(Goto("pl_ret"), MatchFrame(KW_NULL)))
    /\ UNCHANGED <<pos, env>>

parse_null_return ==
    /\ At("pl_ret")
    /\ Return(IF ret.val.b THEN Ok(JNull) ELSE Err(E_NULL))
    /\ UNCHANGED <<pos, env>>

\* faulty variant: the comparison reads the parser's own iterator, not a clone
consume_if_match_compare_NoClone ==
    /\ At("cm_cmp")
    /\ pos' = IF CharAt(Top.cpos) # NONE THEN pos + 1 ELSE pos
    /\ IF CharAt(Top.cpos) # Top.expected[Top.i] THEN Return(Ok(RawBool(FALSE)))
       ELSE IF Top.i = Len(Top.expected)
       THEN Step(SetTop([Top EXCEPT !.pc = "cm_adv", !.i = 0]))
       ELSE Step(SetTop([Top EXCEPT !.cpos = Top.cpos + 1, !.i = Top.i + 1]))
    /\ UNCHANGED env

\* the clone of the iterator is compared with `expected`, a character a step
consume_if_match_compare ==
    /\ At("cm_cmp")
    /\ IF CharAt(Top.cpos) # Top.expected[Top.i] THEN Return(Ok(RawBool(FALSE)))
       ELSE IF Top.i = Len(Top.expected)
       THEN Step(SetTop([Top EXCEPT !.pc = "cm_adv", !.i = 0]))
       ELSE Step(SetTop([Top EXCEPT !.cpos = Top.cpos + 1, !.i = Top.i + 1]))
    /\ UNCHANGED <<pos, env>>

\* for _ in 0..expected.len() { self.chars.next(); }
consume_if_match_advance ==
    /\ At("cm_adv")
    /\ pos' = Advance
    /\ IF Top.i + 1 = ByteLen(Top.expected) THEN Return(Ok(RawBool(TRUE)))
       ELSE Step(SetTop([Top EXCEPT !.i = Top.i + 1]))
    /\ UNCHANGED env

(***************************************************************************)
(* parse_json                                                              *)
(***************************************************************************)
Finish(r) ==
    /\ stack' = <<>>
    /\ ret' = NoRet
    /\ result' = r

\* faulty variant: what follows the value is not looked at
EndCheck_Lax(c, value) == Ok(value)

\* what parse_json returns after the value `value` and the whitespace after
\* it, when the next character is c
EndCheck(c, value) == IF c # NONE THEN Err(E_TRAILING) ELSE Ok(value)

parse_json_start ==
    /\ At("pj_start")
    /\ Step(Call(Goto("pj_value"), ValueFrame))
    /\ UNCHANGED <<pos, env>>

parse_json_value ==
    /\ At("pj_value")
    /\ IF ~ret.ok THEN Finish(ret)
       ELSE Step(Call([Top EXCEPT !.pc = "pj_end", !.value = ret.val], WsFrame))
    /\ UNCHANGED <<pos, env>>

parse_json_end ==
    /\ At("pj_end")
    /\ pos' = Advance
    /\ Finish(EndCheck(Peek, Top.value))
    /\ UNCHANGED env

(***************************************************************************)
(* A document of whole tokens that parsed is parsed once more with         *)
(* whitespace added: one whitespace character in one gap, or in every gap. *)
(* A gap is the place before the first token, behind the last, or next to  *)
(* a structural token.                                                     *)
(***************************************************************************)
Gap(ts, i) ==
    IF i = 0 \/ i = Len(ts) THEN TRUE
    ELSE ts[i] \in Structural \/ ts[i + 1] \in Structural

Gaps(ts) == {i \in 0..Len(ts) : Gap(ts, i)}

RECURSIVE Spread(_, _, _, _)
\* the tokens ts from the i-th on, with w behind every token whose index is in G
Spread(ts, G, w, i) ==
    IF i > Len(ts) THEN <<>>
    ELSE <<ts[i]>> \o (IF i \in G THEN <<w>> ELSE <<>>) \o Spread(ts, G, w, i + 1)

WithWhitespace(ts, G, w) == (IF 0 \in G THEN <<w>> ELSE <<>>) \o Spread(ts, G, w, 1)

Reparse ==
    /\ Done /\ result.ok /\ eof
    /\ family \in TokenFamilies
    /\ first = NoRet
    /\ \E w \in Blank, G \in {{i} : i \in Gaps(fed)} \cup {Gaps(fed)} :
          /\ fed' = WithWhitespace(fed, G, w)
          /\ input' = Flatten(WithWhitespace(fed, G, w))
    /\ first' = result
    /\ pos' = 1
    /\ stack' = NewParser
    /\ ret' = NoRet
    /\ result' = NoRet
    /\ UNCHANGED <<family, left, eof>>

Parser ==
    \/ skip_whitespace
    \/ parse_value_start \/ parse_value_match \/ parse_value_return
    \/ parse_object_open \/ parse_object_peek \/ parse_object_key
    \/ parse_object_colon \/ parse_object_value \/ parse_object_sep
    \/ parse_array_open \/ parse_array_peek \/ parse_array_value \/ parse_array_sep
    \/ parse_string_open \/ parse_string_char \/ parse_string_escape
    \/ parse_string_hex
    \/ parse_number_sign \/ parse_number_char
    \/ parse_boolean_peek \/ parse_boolean_true \/ parse_boolean_false
    \/ parse_null_call \/ parse_null_return
    \/ consume_if_match_compare \/ consume_if_match_advance
    \/ parse_json_start \/ parse_json_value \/ parse_json_end

Next == Feed \/ EndOfInput \/ Parser \/ Reparse

Spec == Init /\ [][Next]_vars

\* every enabled step of the program is eventually taken
FairSpec == Spec /\ WF_vars(Next)

(***************************************************************************)
(* Vocabulary of the properties.                                           *)
(***************************************************************************)
\* the program point pc is about to take its step
Taking(pc) == ~Done /\ Top.pc = pc /\ Ready

\* the step returns to the caller
Returns == Len(stack') < Len(stack)

\* the input has ended and the cursor is behind its last character
AtEnd == eof /\ pos > Len(input)

WhitespaceToken(t) == \A i \in 1..Len(t) : is_whitespace(t[i])

\* a ',' token followed, after whitespace tokens only, by a '}' or ']' token
HasTrailingComma(ts) ==
    \E i \in 1..Len(ts) : \E j \in (i + 1)..Len(ts) :
        /\ ts[i] = <<COMMA>>
        /\ ts[j] \in {<<RBRACE>>, <<RBRACKET>>}
        /\ \A k \in (i + 1)..(j - 1) : WhitespaceToken(ts[k])

RECURSIVE FirstNonBlank(_, _)
\* the first character of s at or after index i that is not whitespace
FirstNonBlank(s, i) ==
    IF i > Len(s) THEN NONE
    ELSE IF is_whitespace(s[i]) THEN FirstNonBlank(s, i + 1)
    ELSE s[i]

RECURSIVE LastNonBlank(_, _)
\* the last index of s at or before i that holds no whitespace, 0 if none
LastNonBlank(s, i) ==
    IF i < 1 THEN 0
    ELSE IF is_whitespace(s[i]) THEN LastNonBlank(s, i - 1)
    ELSE i

(***************************************************************************)
(* C1.  Trailing commas are rejected: an input of whole tokens in which a  *)
(* ',' is followed, after optional whitespace, by the closing '}' or ']'   *)
(* never parses to a value.                                                *)
(***************************************************************************)
\* C1: an input with a trailing comma in an object or array never parses to a value
C1_TrailingCommaRejected ==
    (Done /\ family \in TokenFamilies /\ HasTrailingComma(fed)) => ~result.ok

(***************************************************************************)
(* C2.  An object whose first key position holds a character that is       *)
(* neither '}' nor '"' never parses to a value.                            *)
(***************************************************************************)
\* C2: an object whose first key starts with neither '}' nor '"' never parses to a value
C2_KeyMustStartWithQuote ==
    (/\ Done
     /\ input # <<>>
     /\ input[1] = LBRACE
     /\ FirstNonBlank(input, 2) \notin {NONE, RBRACE, QUOTE}) => ~result.ok

(***************************************************************************)
(* C3.  parse_json returns a value only with the cursor at the end of the  *)
(* input; after the value and the whitespace behind it, a remaining        *)
(* character gives the trailing-characters error and no remaining          *)
(* character gives the value.                                              *)
(***************************************************************************)
C3_State ==
    /\ (Done /\ result.ok) => (eof /\ pos = Len(input) + 1)
    /\ (Done /\ result = Err(E_TRAILING)) =>
           (pos >= 2 /\ ~is_whitespace(input[pos - 1]))
    /\ Taking("pj_end") => (pos <= Len(input) => ~is_whitespace(input[pos]))

C3_Step ==
    Taking("pj_end") =>
        /\ Done'
        /\ result' = IF pos <= Len(input) THEN Err(E_TRAILING) ELSE Ok(Top.value)

\* C3: a value is returned only at the end of the input; a character left behind
\* the value and its whitespace gives the trailing-characters error
C3_WholeInputOrTrailingError == [](C3_State) /\ [][C3_Step]_vars

C3_Witness ==
    /\ Done /\ result = Err(E_TRAILING)
    /\ input = <<49, 97>>                              \* 1a

(***************************************************************************)
(* C4.  As claimed: wherever inside a string literal the input ends,       *)
(* parse_string fails with the unterminated-string error.                  *)
(***************************************************************************)
InString == ~Done /\ Top.fn = "parse_string" /\ Top.pc \in {"ps_loop", "ps_esc", "ps_hex"}

\* C4 as claimed: the input ending anywhere inside a string literal gives the
\* unterminated-string error
C4_EndInStringIsUnterminated ==
    [][(InString /\ AtEnd) => ret' = Err(E_UNTERMINATED)]_vars

(***************************************************************************)
(* C4, amended.  When the input ends inside a string literal, parse_string *)
(* fails: with the unterminated-string error where a raw character or the  *)
(* closing '"' was due, with the invalid-escape error directly after a     *)
(* backslash, and with the invalid-unicode-escape error within the four    *)
(* characters after \u.                                                    *)
(***************************************************************************)
\* C4 amended: the input ending inside a string literal gives the unterminated-string
\* error, the invalid-escape error behind a backslash, the invalid-unicode-escape
\* error within \u
C4_EndInStringFails ==
    [][(InString /\ AtEnd) =>
          /\ Returns
          /\ ret' = Err(CASE Top.pc = "ps_loop" -> E_UNTERMINATED
                          [] Top.pc = "ps_esc"  -> E_BAD_ESCAPE
                          [] OTHER              -> E_BAD_UNICODE)]_vars

C4_Witness ==
    /\ ~Done /\ eof /\ family = "string"
    /\ ret = Err(E_BAD_UNICODE)
    /\ input = <<QUOTE, BACKSLASH, LOWER_U, 52, 49>>   \* "\u41

(***************************************************************************)
(* C5.  A \u escape yields a character only when the four characters after *)
(* it are all hex digits and their value is no surrogate; in every other   *)
(* case parse_string fails with the invalid-unicode-escape error.          *)
(***************************************************************************)
IsHexDigit(c) == c \in (48..57) \cup (65..70) \cup (97..102)

\* the text take(4) has collected when the step at ps_hex ends the escape
Collected == IF Peek = NONE THEN Top.hex ELSE Append(Top.hex, Peek)

WellFormedEscape(h) ==
    /\ Len(h) = 4
    /\ \A i \in 1..4 : IsHexDigit(h[i])
    /\ DigitsValue(h, 16) \notin 55296..57343

\* C5: \u yields a character only for four hex digits that are no surrogate, and
\* fails with the invalid-unicode-escape error otherwise
C5_UnicodeEscapeNeedsFourHexDigits ==
    [][(Taking("ps_hex") /\ (Peek = NONE \/ Len(Top.hex) = 3)) =>
          IF WellFormedEscape(Collected)
          THEN /\ ~Returns
               /\ Top'.string = Append(Top.string, DigitsValue(Collected, 16))
          ELSE /\ Returns
               /\ ret' = Err(E_BAD_UNICODE)]_vars

C5_Witness ==
    /\ ~Done /\ Top.fn = "parse_string" /\ Top.pc = "ps_loop"
    /\ input = <<QUOTE, BACKSLASH, LOWER_U, PLUS, 48, 52, 49>>   \* "\u+041
    /\ pos = 8
    /\ Top.string = <<65>>                                       \* A

(***************************************************************************)
(* C6.  consume_if_match is all or nothing.  While the clone is compared   *)
(* the parser's cursor stays where it was; when the characters at the      *)
(* cursor are not the whole keyword the cursor is unchanged and the caller *)
(* fails with its expected-keyword error; when they are, the cursor is     *)
(* exactly behind the keyword and the caller returns the keyword's value.  *)
(***************************************************************************)
KeywordCallers == {"pb_true", "pb_false", "pl_ret"}

KeywordOf(pc) ==
    CASE pc = "pb_true" -> KW_TRUE [] pc = "pb_false" -> KW_FALSE [] OTHER -> KW_NULL

KeywordError(pc) ==
    CASE pc = "pb_true" -> E_TRUE [] pc = "pb_false" -> E_FALSE [] OTHER -> E_NULL

KeywordValue(pc) ==
    CASE pc = "pb_true" -> JBoolean(TRUE) [] pc = "pb_false" -> JBoolean(FALSE)
      [] OTHER -> JNull

\* the characters of the input from index i on are the keyword kw
KeywordAt(kw, i) == \A k \in 1..Len(kw) : CharAt(i + k - 1) = kw[k]

C6_State ==
    /\ (~Done /\ Top.pc = "cm_cmp") =>
           /\ pos = Top.cpos - Top.i + 1
           /\ \A k \in 1..(Top.i - 1) : CharAt(pos + k - 1) = Top.expected[k]
    /\ (~Done /\ Top.pc \in KeywordCallers) =>
           IF ret.val.b
           THEN /\ pos > Len(KeywordOf(Top.pc))
                /\ KeywordAt(KeywordOf(Top.pc), pos - Len(KeywordOf(Top.pc)))
           ELSE /\ ~KeywordAt(KeywordOf(Top.pc), pos)
                /\ CharAt(pos) = KeywordOf(Top.pc)[1]

C6_Step ==
    /\ (~Done /\ Top.pc = "cm_cmp") => pos' = pos
    /\ (~Done /\ Top.pc = "cm_cmp" /\ Returns) =>
           ret' = Ok(RawBool(FALSE)) /\ ~KeywordAt(Top.expected, pos)
    /\ (~Done /\ Top.pc \in KeywordCallers) =>
           /\ pos' = pos
           /\ ret' = IF ret.val.b THEN Ok(KeywordValue(Top.pc))
                                  ELSE Err(KeywordError(Top.pc))

\* C6: consume_if_match moves the cursor by the whole keyword or not at all, and the
\* caller fails with its expected-keyword error on a mismatch
C6_KeywordAllOrNothing == [](C6_State) /\ [][C6_Step]_vars

C6_Witness ==
    /\ Done /\ eof
    /\ input = <<116, 114, 117>>                       \* tru
    /\ pos = 1
    /\ result = Err(E_TRUE)

(***************************************************************************)
(* C7.  A parsed document of whole tokens holds one entry for each element *)
(* and member of the input, in the order of the text: the scalars of the   *)
(* value, keys included, read in order are the scalar tokens of the input, *)
(* the objects hold as many members as the input has ':', and the arrays   *)
(* and objects together hold as many entries as the input has values       *)
(* besides the outermost.  Members with equal keys are all kept.           *)
(***************************************************************************)
RECURSIVE Leaves(_), LeavesOfItems(_), LeavesOfPairs(_)
Leaves(v) ==
    CASE v.type = "Array"  -> LeavesOfItems(v.items)
      [] v.type = "Object" -> LeavesOfPairs(v.pairs)
      [] OTHER             -> <<v>>
LeavesOfItems(a) ==
    IF a = <<>> THEN <<>> ELSE Leaves(Head(a)) \o LeavesOfItems(Tail(a))
LeavesOfPairs(o) ==
    IF o = <<>> THEN <<>>
    ELSE <<JString(Head(o)[1])>> \o Leaves(Head(o)[2]) \o LeavesOfPairs(Tail(o))

RECURSIVE Entries(_), EntriesOfItems(_), EntriesOfPairs(_)
\* the number of elements and members in v, at every depth
Entries(v) ==
    CASE v.type = "Array"  -> Len(v.items) + EntriesOfItems(v.items)
      [] v.type = "Object" -> Len(v.pairs) + EntriesOfPairs(v.pairs)
      [] OTHER             -> 0
EntriesOfItems(a) ==
    IF a = <<>> THEN 0 ELSE Entries(Head(a)) + EntriesOfItems(Tail(a))
EntriesOfPairs(o) ==
    IF o = <<>> THEN 0 ELSE Entries(Head(o)[2]) + EntriesOfPairs(Tail(o))

RECURSIVE Members(_), MembersOfItems(_), MembersOfPairs(_)
\* the number of members of the objects in v, at every depth
Members(v) ==
    CASE v.type = "Array"  -> MembersOfItems(v.items)
      [] v.type = "Object" -> Len(v.pairs) + MembersOfPairs(v.pairs)
      [] OTHER             -> 0
MembersOfItems(a) ==
    IF a = <<>> THEN 0 ELSE Members(Head(a)) + MembersOfItems(Tail(a))
MembersOfPairs(o) ==
    IF o = <<>> THEN 0 ELSE Members(Head(o)[2]) + MembersOfPairs(Tail(o))

ScalarToken(t) == t \in {One, StrA, StrB}
OpenToken(t)   == t \in {<<LBRACE>>, <<LBRACKET>>}
ColonToken(t)  == t = <<COLON>>

\* the value a scalar token stands for
TokenValue(t) ==
    IF t = One THEN JNumber([neg |-> FALSE, digits |-> <<49>>, exp |-> 0])
    ELSE JString(<<t[2]>>)

RECURSIVE TokenValues(_)
TokenValues(ts) ==
    IF ts = <<>> THEN <<>> ELSE <<TokenValue(Head(ts))>> \o TokenValues(Tail(ts))

HowMany(ts, Test(_)) == Len(SelectSeq(ts, Test))

\* every piece is a token of its own: no two digits side by side
Tokenised(ts) == \A i \in 1..(Len(ts) - 1) : ~(ts[i] = One /\ ts[i + 1] = One)

\* C7: a parsed array or object holds one entry per element or member of the input,
\* in text order, members with equal keys all kept
C7_EveryEntryInTextOrder ==
    (Done /\ result.ok /\ family \in TokenFamilies /\ Tokenised(fed)) =>
        /\ Leaves(result.val) = TokenValues(SelectSeq(fed, ScalarToken))
        /\ Members(result.val) = HowMany(fed, ColonToken)
        /\ Entries(result.val) =
               HowMany(fed, ScalarToken) - HowMany(fed, ColonToken)
                   + HowMany(fed, OpenToken) - 1

C7_Witness ==
    /\ Done /\ result.ok /\ family = "members"
    /\ result.val.type = "Object"
    /\ Len(result.val.pairs) = 2
    /\ result.val.pairs[1][1] = result.val.pairs[2][1]
    /\ result.val.pairs[1][2] # result.val.pairs[2][2]

(***************************************************************************)
(* C8.  parse_value, behind the whitespace it skipped, fails with the      *)
(* end-of-input error exactly when no character is left and with the       *)
(* unexpected-character error, naming the character, exactly when the      *)
(* character starts no value; in both cases it has consumed nothing but    *)
(* the whitespace.  The empty and the all-whitespace input fail with the   *)
(* end-of-input error.                                                     *)
(***************************************************************************)
ValueStarts == {123, 91, 34, 45, 116, 102, 110} \cup (48..57)   \* { [ " - t f n 0-9

\* only whitespace lies between the cursor and the place parse_value was
\* called at: the start of the input, or behind a '[', a ',' or a ':'
OnlyWhitespaceSkipped ==
    LET j == LastNonBlank(input, pos - 1)
    IN  j = 0 \/ input[j] \in {LBRACKET, COMMA, COLON}

C8_Step ==
    Taking("pv_peek") =>
        /\ (ret' = Err(E_UNEXPECTED_END)) <=> (Peek = NONE)
        /\ (ret' = ErrCh(E_UNEXPECTED_CHAR, Peek)) <=> (Peek # NONE /\ Peek \notin ValueStarts)
        /\ (Peek = NONE \/ Peek \notin ValueStarts) =>
               (Returns /\ pos' = pos /\ OnlyWhitespaceSkipped)
        /\ (Peek \in ValueStarts) => (~Returns /\ ret' = NoRet)

C8_State ==
    (Done /\ eof /\ \A i \in 1..Len(input) : is_whitespace(input[i])) =>
        (result = Err(E_UNEXPECTED_END) /\ pos = Len(input) + 1)

\* C8: parse_value fails with end-of-input exactly when no character is left, with
\* unexpected-character exactly when the character starts no value, and has then
\* consumed only whitespace
C8_ValueDispatchErrors == [](C8_State) /\ [][C8_Step]_vars

C8_Witness ==
    /\ Done
    /\ result = ErrCh(E_UNEXPECTED_CHAR, COLON)
    /\ input = <<LBRACKET, 32, COLON>>                 \* [ :
    /\ pos = 3

(***************************************************************************)
(* C9.  Whitespace insensitivity: a document of whole tokens that parsed   *)
(* parses to an equal value with a whitespace character put before its     *)
(* first token, behind its last, or next to a structural token.            *)
(***************************************************************************)
\* C9: the document with whitespace added in its gaps parses to the value of the
\* document without
C9_WhitespaceInsensitive ==
    (Done /\ first # NoRet) => result = first

C9_Witness ==
    /\ Done /\ first # NoRet /\ result.ok
    /\ result.val.type = "Object"
    /\ fed = <<<<LBRACE>>, StrA, <<160>>, <<COLON>>, One, <<RBRACE>>>>

(***************************************************************************)
(* C10.  A parse comes to an end.  The cursor never moves back; every      *)
(* pass through the loop of skip_whitespace, of parse_string, of           *)
(* parse_number, of the hex digits, of the keyword and of the members of   *)
(* an object or elements of an array takes a character or returns; the     *)
(* calls of parse_value in progress are no more than the characters        *)
(* taken plus the first; and until parse_json has returned there is a      *)
(* next step.                                                              *)
(***************************************************************************)
LoopPcs == {"ws_loop", "ps_loop", "ps_esc", "ps_hex", "pn_loop", "cm_adv",
            "po_sep", "pa_sep"}

CallsOf(fn) == Cardinality({i \in 1..Len(stack) : stack[i].fn = fn})

C10_State ==
    /\ Done \/ ENABLED Next
    /\ CallsOf("parse_value") <= pos
    /\ CallsOf("parse_object") + CallsOf("parse_array") <= pos
    /\ Len(stack) <= 2 * pos + 2
    /\ pos <= Len(input) + 1
    /\ Done => result # NoRet

C10_Step ==
    /\ first' = first => pos' >= pos
    /\ (~Done /\ Ready /\ Top.pc \in LoopPcs) => (pos' = pos + 1 \/ Returns)

\* C10: the cursor never moves back, every loop pass takes a character or returns,
\* the nesting of calls is bounded by the characters taken, and there is always a
\* next step until parse_json has returned
C10_ParseEnds == [](C10_State) /\ [][C10_Step]_vars

\* under fair scheduling every parse returns
C10_Terminates == (~Done) ~> Done

C10_Witness ==
    /\ Done /\ result.ok /\ first = NoRet
    /\ result.val.type = "Array"
    /\ Len(result.val.items) = 2
    /\ pos = 6

====
